---- MODULE Spec2Model ----
(***************************************************************************)
(* The Nafeth board generator: the POST /api/generate-pdf handler          *)
(* (src/app/page.tsx), the zod schemas and the overlay generator           *)
(* (src/lib/pdf-generator.ts).                                             *)
(*                                                                         *)
(* Conventions.  A string is a sequence of one-character strings.  The     *)
(* Arabic word of splitAuctionName is written Mazad, in transliteration.   *)
(* Schema lengths are in hundredths of a point (903.90 pt is 90390); a     *)
(* drawn y is in 1/600 pt and a drawn centre x in 1/200 pt, so that the    *)
(* code's /2, /3, *1.2/4 and *1.2/1.5 stay integral.  A templateId is in   *)
(* tenths (1 is 10, 1.5 is 15), so that zod's .int() decides something.    *)
(***************************************************************************)
EXTENDS Integers, Sequences, FiniteSets, TLC

\* Number of request slots of the concurrent specification.
NReq == 2
\* A request body differs from the documented example request in at most
\* this many of its parts.
MaxDeviations == 2
\* A text given to a direct call is made of at most this many pieces.
MaxPieces == 5

Reqs == 1..NReq

-----------------------------------------------------------------------------
(* Strings *)

WhiteSpace == {" ", "\t"}

Mazad == <<"m", "z", "a", "d">>

RECURSIVE TrimStart(_)
TrimStart(s) ==
  IF s = <<>> THEN <<>>
  ELSE IF Head(s) \in WhiteSpace THEN TrimStart(Tail(s)) ELSE s

RECURSIVE TrimEnd(_)
TrimEnd(s) ==
  IF s = <<>> THEN <<>>
  ELSE IF s[Len(s)] \in WhiteSpace THEN TrimEnd(SubSeq(s, 1, Len(s) - 1)) ELSE s

\* String.prototype.trim
Trim(s) == TrimEnd(TrimStart(s))

\* U+200E LEFT-TO-RIGHT MARK and U+200F RIGHT-TO-LEFT MARK, written as one
\* character each.
lrm == "L"
rlm == "R"

\* [0-9\u0660-\u0669]: a western digit and an Arabic-Indic digit.
BidiDigits == {"1", "7"}

\* [0-9\u0660-\u0669:\/\-. ]: what may follow the first digit of a match.
BidiTail == BidiDigits \cup {":", "/", "-", ".", " "}

\* The index of the last character of the greedy match that starts at i.
RECURSIVE MatchEnd(_, _)
MatchEnd(s, i) ==
  IF i < Len(s) /\ s[i + 1] \in BidiTail THEN MatchEnd(s, i + 1) ELSE i

\* (match) => lrm + match.trim() + lrm
WrapMatch(match) == <<lrm>> \o Trim(match) \o <<lrm>>

\* value.replace(/[0-9\u0660-\u0669][0-9\u0660-\u0669:\/\-. ]*/g, ...), from
\* index i on: the matches are found left to right and do not overlap.
RECURSIVE ReplaceMatches(_, _)
ReplaceMatches(s, i) ==
  IF i > Len(s) THEN <<>>
  ELSE IF s[i] \in BidiDigits
    THEN LET e == MatchEnd(s, i)
         IN  WrapMatch(SubSeq(s, i, e)) \o ReplaceMatches(s, e + 1)
    ELSE <<s[i]>> \o ReplaceMatches(s, i + 1)

normalizeBidiText(value) == <<rlm>> \o ReplaceMatches(value, 1) \o <<rlm>>

\* s without its direction marks.
RECURSIVE WithoutMarks(_)
WithoutMarks(s) ==
  IF s = <<>> THEN <<>>
  ELSE IF Head(s) \in {lrm, rlm} THEN WithoutMarks(Tail(s))
  ELSE <<Head(s)>> \o WithoutMarks(Tail(s))

\* The first maximal run of non-whitespace characters of s.
RECURSIVE FirstWord(_)
FirstWord(s) ==
  IF s = <<>> \/ Head(s) \in WhiteSpace THEN <<>>
  ELSE <<Head(s)>> \o FirstWord(Tail(s))

\* s.split(/\s+/): the pieces between the maximal runs of whitespace.  The
\* empty string gives one empty piece, and so does leading or trailing
\* whitespace.
RECURSIVE SplitWs(_)
SplitWs(s) ==
  LET w    == FirstWord(s)
      rest == SubSeq(s, Len(w) + 1, Len(s))
  IN  IF rest = <<>> THEN <<w>>
      ELSE <<w>> \o SplitWs(TrimStart(rest))

\* parts.join(' ')
RECURSIVE JoinSpace(_)
JoinSpace(parts) ==
  IF parts = <<>> THEN <<>>
  ELSE IF Len(parts) = 1 THEN parts[1]
  ELSE parts[1] \o <<" ">> \o JoinSpace(Tail(parts))

-----------------------------------------------------------------------------
(* JSON values of a request body *)

\* A text-valued member: absent, a string, or a value of another type.
Undef  == [k |-> "undefined", s |-> <<>>, n |-> 0]
JStr(s) == [k |-> "string", s |-> s, n |-> 0]
JNum(n) == [k |-> "number", s |-> <<>>, n |-> n]

\* An image member: uri is the data-URI media type before the base64 text
\* ("none" for bare base64), fmt the format of the decoded bytes.
NoImg == [k |-> "undefined", uri |-> "none", fmt |-> "empty"]
ImgStr(uri, fmt) == [k |-> "string", uri |-> uri, fmt |-> fmt]
EmptyImg == ImgStr("none", "empty")

-----------------------------------------------------------------------------
(* The field schema, public/schemas/form_fields_schema.json.  The file is   *)
(* not among the sources; Auction_name is the entry README.md reproduces,   *)
(* Type has the default size COPILOT_PROMPT.md gives, and the other entries *)
(* are representative: a required and a non-required field, one field per   *)
(* font family, and the phone field the generator treats specially.         *)

BOARD_HEIGHT == 566929

TextFields ==
  << [name |-> "Auction_name", required |-> TRUE,
      family |-> "RuaqArabic-Medium", size |-> 278,
      x |-> 913326, y |-> 90390, w |-> 149634, h |-> 93900],
     [name |-> "Type", required |-> TRUE,
      family |-> "RuaqArabic-Medium", size |-> 300,
      x |-> 600000, y |-> 200000, w |-> 200000, h |-> 100000],
     [name |-> "District", required |-> FALSE,
      family |-> "LamaSans-Medium", size |-> 94,
      x |-> 912700, y |-> 316500, w |-> 150000, h |-> 30000],
     [name |-> "phone", required |-> FALSE,
      family |-> "Rubik-Medium", size |-> 300,
      x |-> 100000, y |-> 480000, w |-> 300000, h |-> 60000] >>

\* The same schema with District in a family that has no font file path.
TextFieldsUnmapped == [TextFields EXCEPT ![3].family = "LamaSans-Bold"]

\* The text fields the schema file may hold.
Schemas == {TextFields, TextFieldsUnmapped}

ImageFields ==
  << [name |-> "Company_logo", x |-> 50000, y |-> 40000, w |-> 120000, h |-> 80000],
     [name |-> "QRcode", x |-> 50000, y |-> 420000, w |-> 90000, h |-> 90000] >>

FieldNames == {TextFields[i].name : i \in 1..Len(TextFields)}

ImageNames == {ImageFields[i].name : i \in 1..Len(ImageFields)}

FieldSpec(name) ==
  TextFields[CHOOSE i \in 1..Len(TextFields) : TextFields[i].name = name]

\* FIELD_SCHEMA.image_fields.find(f => f.name === name)
ImageSpec(name) ==
  ImageFields[CHOOSE i \in 1..Len(ImageFields) : ImageFields[i].name = name]

\* A formData member that is not a schema text field.
ExtraKey == "Notes"

ALLOWED_FONT_OVERRIDES == {"phone"}

-----------------------------------------------------------------------------
(* Validation: the zod schemas *)

TextFieldAcceptsEmpty(field, v) ==
  IF field.required
  THEN v.k = "string"
  ELSE v.k \in {"string", "undefined"}

\* z.string({required_error}).min(1) for a required field,
\* z.string().optional().default('') otherwise.
TextFieldAccepts(field, v) ==
  IF field.required
  THEN v.k = "string" /\ Len(v.s) >= 1
  ELSE v.k \in {"string", "undefined"}

\* textFieldsSchema.safeParse(fd): fd maps member names to JSON values.  The
\* parsed data keeps the schema's members only (z.object strips the others)
\* and holds '' for an absent non-required one.
textFieldsSchema(fd) ==
  LET bad == {n \in FieldNames : ~TextFieldAccepts(FieldSpec(n), fd[n])}
  IN  [success |-> bad = {},
       issues  |-> bad,
       data    |-> [n \in FieldNames |-> fd[n].s]]

FontOverrideAcceptsUpTo800(v) ==
  \/ v.k = "undefined"
  \/ v.k = "number" /\ v.n >= 50 /\ v.n <= 800

\* z.number().min(50).max(1000).optional()
FontOverrideAccepts(v) ==
  \/ v.k = "undefined"
  \/ v.k = "number" /\ v.n >= 50 /\ v.n <= 1000

\* fontOverrideSchema.safeParse(ov): only the allowed members are kept.
fontOverrideSchema(ov) ==
  LET bad == {n \in ALLOWED_FONT_OVERRIDES : ~FontOverrideAccepts(ov[n])}
  IN  [success |-> bad = {},
       issues  |-> bad,
       data    |-> [n \in ALLOWED_FONT_OVERRIDES |-> ov[n]]]

LogoAcceptsEmpty(img) == img.k = "string"

\* logo: z.string({required_error}).min(1)
LogoAccepts(img) == img.k = "string" /\ img.fmt # "empty"

\* qr: z.string().optional().default('')
QrAccepts(img) == img.k \in {"string", "undefined"}

imagesSchema(images) ==
  LET bad == (IF LogoAccepts(images.logo) THEN {} ELSE {"logo"})
             \cup (IF QrAccepts(images.qr) THEN {} ELSE {"qr"})
  IN  [success |-> bad = {},
       issues  |-> bad,
       data    |-> [logo |-> images.logo,
                    qr   |-> IF images.qr.k = "undefined" THEN EmptyImg
                             ELSE images.qr]]

\* templateId: z.number().int().min(1).max(1), on a value in tenths.
TemplateIdAccepts(v) ==
  /\ v.k = "number"
  /\ v.n % 10 = 0
  /\ v.n >= 10
  /\ v.n <= 10

\* The options of a call of generateBoard (GenerateBoardOptions); NoOptions
\* stands where there are none.
NoOptions ==
  [templateId    |-> 0,
   formData      |-> [n \in FieldNames |-> <<>>],
   fontOverrides |-> [k |-> "undefined",
                      f |-> [n \in ALLOWED_FONT_OVERRIDES |-> Undef]],
   images        |-> [logo |-> NoImg, qr |-> NoImg]]

Prefixed(prefix, names) == {<<prefix, n>> : n \in names}

\* boardFormSchema.safeParse(value), value any parsed JSON value.
boardFormSchema(value) ==
  IF value.json # "object"
  THEN [success |-> FALSE, issues |-> {<<"", "">>}, data |-> NoOptions]
  ELSE
    LET fd  == textFieldsSchema(value.formData)
        ov  == IF value.fontOverrides.k = "undefined"
               THEN [success |-> TRUE, issues |-> {},
                     data |-> [n \in ALLOWED_FONT_OVERRIDES |-> Undef]]
               ELSE fontOverrideSchema(value.fontOverrides.f)
        im  == imagesSchema(value.images)
        bad == (IF TemplateIdAccepts(value.templateId) THEN {}
                ELSE {<<"templateId", "">>})
               \cup Prefixed("formData", fd.issues)
               \cup Prefixed("fontOverrides", ov.issues)
               \cup Prefixed("images", im.issues)
    IN  [success |-> bad = {},
         issues  |-> bad,
         data    |-> [templateId    |-> value.templateId.n,
                      formData      |-> fd.data,
                      fontOverrides |-> [k |-> value.fontOverrides.k,
                                         f |-> ov.data],
                      images        |-> im.data]]

-----------------------------------------------------------------------------
(* The font-size inputs of the form, src/components/FontSizeOverride.tsx *)

\* <input type="number" min={50} max={1000}>
FormInputMin == 50
FormInputMax == 1000

OVERRIDE_DEFAULTS == [phone |-> 808]

\* getDefaultSize: the size the form shows as the default of a field.
getDefaultSize(fieldName) ==
  IF fieldName \in DOMAIN OVERRIDE_DEFAULTS /\ OVERRIDE_DEFAULTS[fieldName] # 0
  THEN OVERRIDE_DEFAULTS[fieldName]
  ELSE FieldSpec(fieldName).size

\* ImageUploader: the dropzone accepts image/png and image/jpeg files, for
\* the logo and for the QR image alike, and fileToBase64 hands on the base64
\* text after the comma of the data URI.
UploaderOutputs == {ImgStr("none", "png"), ImgStr("none", "jpeg")}

-----------------------------------------------------------------------------
(* The overlay generator, src/lib/pdf-generator.ts *)

\* The families that have a font file path.
FONT_PATHS ==
  {"LamaSans-Medium", "RuaqArabic-Bold", "RuaqArabic-Medium", "Rubik-Medium"}

TEMPLATE_FILES == <<"Art_board_2x4.pdf">>

\* A PDF document: whether it was loaded from the template, the fonts
\* embedded, the text and image draws on its first page, in order, and how
\* often it was serialized.
NoDoc == [loaded |-> FALSE, fonts |-> <<>>, texts |-> <<>>, images |-> <<>>,
          saves |-> 0]
TemplateDoc == [NoDoc EXCEPT !.loaded = TRUE]

\* The families of the schema's text fields in the order new Set() keeps:
\* first appearance.
RECURSIVE FamiliesFrom(_, _, _)
FamiliesFrom(fields, i, seen) ==
  IF i > Len(fields) THEN <<>>
  ELSE IF fields[i].family \in seen THEN FamiliesFrom(fields, i + 1, seen)
  ELSE <<fields[i].family>>
       \o FamiliesFrom(fields, i + 1, seen \cup {fields[i].family})

SchemaFamilies(fields) == FamiliesFrom(fields, 1, {})

RECURSIVE loadFontsFailingUnmapped(_, _, _)
loadFontsFailingUnmapped(families, i, fontFiles) ==
  IF i > Len(families) THEN [embedded |-> <<>>, failed |-> ""]
  ELSE LET family == families[i]
       IN  IF family \notin FONT_PATHS \/ family \notin fontFiles
           THEN [embedded |-> <<>>, failed |-> family]
           ELSE LET rest == loadFontsFailingUnmapped(families, i + 1, fontFiles)
                IN  [embedded |-> <<family>> \o rest.embedded,
                     failed   |-> rest.failed]

\* The loop of loadFonts over the families from index i on, given the font
\* files that can be loaded: the families embedded before the first failure,
\* and the family whose loading failed ("" when none did).
RECURSIVE loadFontsFrom(_, _, _)
loadFontsFrom(families, i, fontFiles) ==
  IF i > Len(families) THEN [embedded |-> <<>>, failed |-> ""]
  ELSE LET family == families[i]
       IN  IF family \notin FONT_PATHS
           THEN loadFontsFrom(families, i + 1, fontFiles)
           ELSE IF family \notin fontFiles
           THEN [embedded |-> <<>>, failed |-> family]
           ELSE LET rest == loadFontsFrom(families, i + 1, fontFiles)
                IN  [embedded |-> <<family>> \o rest.embedded,
                     failed   |-> rest.failed]

\* loadFonts, fields being FIELD_SCHEMA.text_fields.
loadFonts(fields, fontFiles) ==
  loadFontsFrom(SchemaFamilies(fields), 1, fontFiles)

SeqRange(q) == {q[i] : i \in 1..Len(q)}

convertYDropsHeight(schemaY, fieldHeight) == BOARD_HEIGHT - schemaY

\* convertY, in hundredths of a point.
convertY(schemaY, fieldHeight) == BOARD_HEIGHT - schemaY - fieldHeight

\* drawCenteredText: the page.drawText call it makes.  cx is the centre x it
\* is given (the text width it subtracts is the font's business); field and
\* baseY record the schema field and the base y the caller computed.
drawCenteredText(field, text, cx, y, fontSize, font, baseY) ==
  [field |-> field, text |-> text, cx |-> cx, y |-> y, size |-> fontSize,
   font |-> font, baseY |-> baseY]

splitAuctionNameNoTrim(text) ==
  LET parts == SplitWs(text)
  IN  IF parts[1] = Mazad /\ Len(parts) > 1
      THEN <<Mazad, JoinSpace(Tail(parts))>>
      ELSE <<text, <<>>>>

splitAuctionName(text) ==
  LET parts == SplitWs(Trim(text))
  IN  IF parts[1] = Mazad /\ Len(parts) > 1
      THEN <<Mazad, JoinSpace(Tail(parts))>>
      ELSE <<text, <<>>>>

splitTypeAtTwoWords(text) ==
  LET words == SplitWs(Trim(text))
  IN  IF Len(words) >= 2
      THEN [lines |-> <<words[1], JoinSpace(Tail(words))>>, useLargeFont |-> TRUE]
      ELSE [lines |-> <<text>>, useLargeFont |-> FALSE]

splitTypeIfNeeded(text) ==
  LET words == SplitWs(Trim(text))
  IN  IF Len(words) > 2
      THEN [lines |-> <<words[1], JoinSpace(Tail(words))>>, useLargeFont |-> TRUE]
      ELSE [lines |-> <<text>>, useLargeFont |-> FALSE]

PhoneFontSizeOrSchema(fontOverrides) ==
  IF /\ fontOverrides.k = "object"
     /\ fontOverrides.f["phone"].k = "number"
     /\ fontOverrides.f["phone"].n # 0
  THEN fontOverrides.f["phone"].n
  ELSE FieldSpec("phone").size

\* fontOverrides?.phone || 808
PhoneFontSize(fontOverrides) ==
  IF /\ fontOverrides.k = "object"
     /\ fontOverrides.f["phone"].k = "number"
     /\ fontOverrides.f["phone"].n # 0
  THEN fontOverrides.f["phone"].n
  ELSE 808

FontSizeOverridesEveryField(fieldSpec, fontOverrides) ==
  PhoneFontSize(fontOverrides)

\* let fontSize = fieldSpec.font.size; if (name === 'phone') fontSize = ...
FontSizeOf(fieldSpec, fontOverrides) ==
  IF fieldSpec.name = "phone" THEN PhoneFontSize(fontOverrides)
  ELSE fieldSpec.size

NoValueNever(rawValue) == FALSE

\* !rawValue
NoValue(rawValue) == rawValue = <<>>

\* One iteration of the loop of overlayTextFields: the draws of one field.
\* y is in 1/600 pt: 6*baseY + 3*height is baseY + height/2.
FieldDraws(fieldSpec, formData, fontCache, fontOverrides) ==
  LET name     == fieldSpec.name
      rawValue == IF name \in DOMAIN formData THEN formData[name] ELSE <<>>
      font     == fieldSpec.family
      fontSize == FontSizeOf(fieldSpec, fontOverrides)
      cx       == 2 * fieldSpec.x + fieldSpec.w
      baseY    == convertY(fieldSpec.y, fieldSpec.h)
      mid      == 6 * baseY + 3 * fieldSpec.h
      D(text, y, size) == drawCenteredText(name, text, cx, y, size, font, baseY)
  IN  IF NoValue(rawValue) THEN <<>>
      ELSE IF font \notin fontCache THEN <<>>
      ELSE IF name = "Auction_name"
      THEN LET lines == splitAuctionName(rawValue)
           IN  IF lines[2] # <<>>
               THEN << D(lines[1], mid + 180 * fontSize, fontSize),
                       D(lines[2], mid - 480 * fontSize, fontSize) >>
               ELSE << D(lines[1], mid - 200 * fontSize, fontSize) >>
      ELSE IF name = "Type"
      THEN LET split        == splitTypeIfNeeded(rawValue)
               typeFontSize == IF split.useLargeFont THEN 400 ELSE fontSize
           IN  IF Len(split.lines) = 2
               THEN << D(split.lines[1], mid + 180 * typeFontSize, typeFontSize),
                       D(split.lines[2], mid - 480 * typeFontSize, typeFontSize) >>
               ELSE << D(split.lines[1], mid - 200 * typeFontSize, typeFontSize) >>
      ELSE << D(rawValue, mid - 200 * fontSize, fontSize) >>

RECURSIVE overlayTextFieldsFrom(_, _, _, _, _)
overlayTextFieldsFrom(fields, i, formData, fontCache, fontOverrides) ==
  IF i > Len(fields) THEN <<>>
  ELSE FieldDraws(fields[i], formData, fontCache, fontOverrides)
       \o overlayTextFieldsFrom(fields, i + 1, formData, fontCache, fontOverrides)

\* overlayTextFields: the draws it makes on the page, in order; fields is
\* FIELD_SCHEMA.text_fields.
overlayTextFields(fields, formData, fontCache, fontOverrides) ==
  overlayTextFieldsFrom(fields, 1, formData, fontCache, fontOverrides)

\* A string image member is truthy unless it is ''.
Truthy(img) == img.k = "string" /\ img.fmt # "empty"

isJpeg(img) ==
  \/ img.uri \in {"jpeg", "jpg"}
  \/ img.uri = "none" /\ img.fmt = "jpeg"

\* pdfDoc.embedJpg / embedPng succeed on bytes of their own format only.
EmbedFails(decoder, img) == img.fmt # decoder

\* page.drawImage(image, {x, y, width, height}) for an image field.
ImageDraw(spec, decoder) ==
  [field |-> spec.name, decoder |-> decoder,
   x |-> spec.x, y |-> convertY(spec.y, spec.h), w |-> spec.w, h |-> spec.h]

\* A call of pdfDoc.embedJpg / embedPng: the image field, the decoder called
\* and the format of the bytes given to it.
Embed(name, decoder, img) == [field |-> name, decoder |-> decoder, fmt |-> img.fmt]

\* await pdfDoc.embedPng(imageBytes) for the QR image
QrDecoder(img) == "png"

\* overlayImages: the embed calls and the draws made before it returns or
\* throws, and the error thrown ("" when it returns).
overlayImages(images) ==
  LET logoDec == IF isJpeg(images.logo) THEN "jpeg" ELSE "png"
      qrDec   == QrDecoder(images.qr)
      none == [embeds |-> <<>>, draws |-> <<>>, error |-> ""]
      logo == IF ~Truthy(images.logo) THEN none
              ELSE IF EmbedFails(logoDec, images.logo)
              THEN [embeds |-> <<Embed("Company_logo", logoDec, images.logo)>>,
                    draws |-> <<>>, error |-> "embed failed"]
              ELSE [embeds |-> <<Embed("Company_logo", logoDec, images.logo)>>,
                    draws |-> <<ImageDraw(ImageSpec("Company_logo"), logoDec)>>,
                    error |-> ""]
      qr   == IF ~Truthy(images.qr) THEN none
              ELSE IF EmbedFails(qrDec, images.qr)
              THEN [embeds |-> <<Embed("QRcode", qrDec, images.qr)>>,
                    draws |-> <<>>, error |-> "embed failed"]
              ELSE [embeds |-> <<Embed("QRcode", qrDec, images.qr)>>,
                    draws |-> <<ImageDraw(ImageSpec("QRcode"), qrDec)>>,
                    error |-> ""]
  IN  IF logo.error # "" THEN logo
      ELSE [embeds |-> logo.embeds \o qr.embeds,
            draws |-> logo.draws \o qr.draws, error |-> qr.error]

-----------------------------------------------------------------------------
(* Request bodies *)

Str3Words == <<"a", " ", "b", " ", "c">>

\* The example request of README.md (API Reference).
BaseBody ==
  [json       |-> "object",
   templateId |-> JNum(10),
   formData   |-> [Auction_name |-> JStr(Str3Words),
                   Type         |-> JStr(<<"a">>),
                   District     |-> Undef,
                   phone        |-> Undef,
                   Notes        |-> Undef],
   fontOverrides |-> [k |-> "object",
                      f |-> [phone |-> Undef, Type |-> JNum(500),
                             Auction_name |-> JNum(400)]],
   images     |-> [logo |-> ImgStr("png", "png"), qr |-> ImgStr("png", "png")]]

\* What req.json() makes of the body: "unparsable" is not JSON; "null",
\* "false", "zero" and "emptystr" are the JSON texts null, false, 0 and "";
\* "array" is a JSON array; "object" is an object with the members below.
JsonKinds ==
  {"object", "unparsable", "null", "false", "zero", "emptystr", "array"}

TemplateIdValues ==
  {JNum(10), JNum(0), JNum(-10), JNum(15), JNum(20), JNum(60), JNum(70),
   JStr(<<"1">>), Undef}

AuctionNameValues ==
  {Undef, JNum(7), JStr(<<>>), JStr(<<"a">>), JStr(Str3Words), JStr(Mazad),
   JStr(Mazad \o <<" ", "a">>), JStr(Mazad \o <<"\t", "a", " ", " ", "b">>),
   JStr(Mazad \o <<"a", " ", "b">>)}

TypeValues ==
  {Undef, JStr(<<>>), JStr(<<"a">>), JStr(<<"a", " ", "b">>), JStr(Str3Words),
   JStr(<<" ", "a", " ", " ", "b", "\t", "c", " ">>)}

DistrictValues == {Undef, JNum(7), JStr(<<>>), JStr(<<"a">>)}

PhoneValues == {Undef, JStr(<<"5", "5">>)}

NotesValues == {Undef, JStr(<<"a">>)}

Overrides(phone, type, name) ==
  [k |-> "object", f |-> [phone |-> phone, Type |-> type, Auction_name |-> name]]

OverrideValues ==
  {[k |-> "undefined", f |-> [phone |-> Undef, Type |-> Undef, Auction_name |-> Undef]],
   Overrides(Undef, Undef, Undef),
   Overrides(Undef, JNum(500), JNum(400)),
   Overrides(JNum(49), Undef, Undef),
   Overrides(JNum(50), Undef, Undef),
   Overrides(JNum(FieldSpec("phone").size), Undef, Undef),
   Overrides(JNum(900), Undef, Undef),
   Overrides(JNum(1000), Undef, Undef),
   Overrides(JNum(1001), Undef, Undef),
   Overrides(JStr(<<"9">>), Undef, Undef)}

LogoValues ==
  {NoImg, EmptyImg, [k |-> "number", uri |-> "none", fmt |-> "empty"],
   ImgStr("png", "png"), ImgStr("none", "png"), ImgStr("jpeg", "jpeg"),
   ImgStr("none", "jpeg"), ImgStr("none", "bad")}

QrValues ==
  {NoImg, EmptyImg, ImgStr("png", "png"), ImgStr("none", "png"),
   ImgStr("none", "jpeg")}

PartNames ==
  {"json", "templateId", "Auction_name", "Type", "District", "phone", "Notes",
   "fontOverrides", "logo", "qr"}

\* The values of a part: all of them when the part deviates, else the base's.
Choice(D, part, values, base) == IF part \in D THEN values ELSE {base}

BodiesDeviatingIn(D) ==
  [json       : Choice(D, "json", JsonKinds, BaseBody.json),
   templateId : Choice(D, "templateId", TemplateIdValues, BaseBody.templateId),
   formData   :
     [Auction_name : Choice(D, "Auction_name", AuctionNameValues,
                            BaseBody.formData.Auction_name),
      Type         : Choice(D, "Type", TypeValues, BaseBody.formData.Type),
      District     : Choice(D, "District", DistrictValues,
                            BaseBody.formData.District),
      phone        : Choice(D, "phone", PhoneValues, BaseBody.formData.phone),
      Notes        : Choice(D, "Notes", NotesValues, BaseBody.formData.Notes)],
   fontOverrides : Choice(D, "fontOverrides", OverrideValues,
                          BaseBody.fontOverrides),
   images     : [logo : Choice(D, "logo", LogoValues, BaseBody.images.logo),
                 qr   : Choice(D, "qr", QrValues, BaseBody.images.qr)]]

Bodies ==
  UNION {BodiesDeviatingIn(D) :
           D \in {E \in SUBSET PartNames : Cardinality(E) <= MaxDeviations}}

\* The bodies of the concurrent specification.
ConcBodies ==
  {BaseBody,
   [BaseBody EXCEPT !.formData.Type = JStr(Str3Words),
                    !.formData.phone = JStr(<<"5", "5">>)],
   [BaseBody EXCEPT !.templateId = JNum(20)],
   [BaseBody EXCEPT !.images.qr = ImgStr("none", "jpeg")],
   [BaseBody EXCEPT !.json = "unparsable"]}

\* Direct calls of the exported generateBoard: the options of the base
\* request with any templateId (in tenths).
DirectTemplateIds == {-10, 0, 5, 10, 15, 20, 60, 70}

\* The texts of direct calls: concatenations of at most MaxPieces pieces, a
\* piece being the word of splitAuctionName, another word, a beginning of
\* that word, or a whitespace character.
Pieces == {Mazad, <<"a">>, <<"m", "z">>, <<" ">>, <<"\t">>}

RECURSIVE TextsOf(_)
TextsOf(n) ==
  IF n = 0 THEN {<<>>}
  ELSE LET shorter == TextsOf(n - 1)
       IN  shorter \cup {t \o p : t \in shorter, p \in Pieces}

Texts == TextsOf(MaxPieces)

\* The files of a deployment: the schema file, and the template and font
\* files that can be loaded (all of them, all but one font file, or all but
\* the template).
AssetConfigs ==
  {[template |-> TRUE, fonts |-> FONT_PATHS \ F, schema |-> fields] :
     F \in {{}} \cup {{f} : f \in FONT_PATHS}, fields \in Schemas}
  \cup {[template |-> FALSE, fonts |-> FONT_PATHS, schema |-> fields] :
          fields \in Schemas}

-----------------------------------------------------------------------------
(* State *)

VARIABLES
  assets,     \* the schema file, and the template and font files loadable
  pc,         \* per request: where its handling stands
  via,        \* per request: "POST" (the route), "direct" (a call), or "none"
  body,       \* per request: the request body received
  parsed,     \* per request: the result of boardFormSchema.safeParse
  options,    \* per request: the options generateBoard was called with
  docs,       \* the PDF documents, by document identity
  fontCache,  \* per request: the families loadFonts embedded
  steps,      \* per request: the steps generateBoard has taken, in order
  result,     \* per request: what generateBoard returned or threw
  responses,  \* per request: the responses the handler has returned
  embeds,     \* per request: the embedJpg / embedPng calls made, in order
  form,       \* per request: the AcroForm of the document (form variant)
  bidi        \* an application of normalizeBidiText: its argument and result

vars == <<assets, pc, via, body, parsed, options, docs, fontCache, steps,
          result, responses, embeds, form, bidi>>

NoResult == [kind |-> "none", msg |-> "", bytes |-> NoDoc]
NoParse  == [success |-> FALSE, issues |-> {}, ran |-> FALSE]

\* The AcroForm of a document: the NeedAppearances entry; per schema text
\* field whether the form has a text field of that name, whether its widgets
\* have an AP entry and the value set (<<>> when none); per image field the
\* button of that name: "absent", "nowidget" (a button without widgets),
\* "widget" or "removed".
NoForm ==
  [need    |-> FALSE,
   text    |-> [n \in FieldNames |-> [present |-> FALSE, ap |-> FALSE, value |-> <<>>]],
   buttons |-> [n \in ImageNames |-> "absent"]]

NoBidi == [value |-> <<>>, out |-> <<>>, applied |-> FALSE]

Init ==
  /\ assets \in AssetConfigs
  /\ pc = [r \in Reqs |-> "idle"]
  /\ via = [r \in Reqs |-> "none"]
  /\ body = [r \in Reqs |-> BaseBody]
  /\ parsed = [r \in Reqs |-> NoParse]
  /\ options = [r \in Reqs |-> NoOptions]
  /\ docs = [r \in Reqs |-> NoDoc]
  /\ fontCache = [r \in Reqs |-> {}]
  /\ steps = [r \in Reqs |-> <<>>]
  /\ result = [r \in Reqs |-> NoResult]
  /\ responses = [r \in Reqs |-> <<>>]
  /\ embeds = [r \in Reqs |-> <<>>]
  /\ form = [r \in Reqs |-> NoForm]
  /\ bidi = NoBidi

-----------------------------------------------------------------------------
(* generateBoard *)

GenOrderImagesFirst == <<"check", "load", "fonts", "images", "text", "save">>

\* The statements of generateBoard in program order.
GenOrder == <<"check", "load", "fonts", "text", "images", "save">>

GenPcs == SeqRange(GenOrder)

\* Where control goes after a step that did not throw.
After(step) ==
  LET i == CHOOSE j \in 1..Len(GenOrder) : GenOrder[j] = step
  IN  IF i = Len(GenOrder) THEN "returned" ELSE GenOrder[i + 1]

DocOfShared(r) == 1

\* The document a call works on: PDFDocument.load makes a new one per call.
DocOf(r) == r

InvalidTemplateIdNoLowerBound(templateId) ==
  templateId > 10 * Len(TEMPLATE_FILES)

\* templateId < 1 || templateId > TEMPLATE_FILES.length, in tenths
InvalidTemplateId(templateId) ==
  templateId < 10 \/ templateId > 10 * Len(TEMPLATE_FILES)

\* loadAssetBytes of `/templates/${TEMPLATE_FILES[templateId - 1]}` succeeds
\* when the index names a template file and the file can be loaded.
TemplateLoads(templateId) ==
  /\ templateId % 10 = 0
  /\ (templateId \div 10) \in 1..Len(TEMPLATE_FILES)
  /\ assets.template

Throw(r, msg) ==
  /\ result' = [result EXCEPT ![r] = [kind |-> "throw", msg |-> msg, bytes |-> NoDoc]]
  /\ pc' = [pc EXCEPT ![r] = "thrown"]

Step(r, step) == steps' = [steps EXCEPT ![r] = Append(@, step)]

Gen_checkTemplateId(r) ==
  /\ pc[r] = "check"
  /\ Step(r, "check")
  /\ IF InvalidTemplateId(options[r].templateId)
     THEN Throw(r, "Invalid templateId")
     ELSE /\ pc' = [pc EXCEPT ![r] = After("check")]
          /\ UNCHANGED result
  /\ UNCHANGED <<bidi, form, embeds, assets, via, body, parsed, options, docs, fontCache, responses>>

Gen_loadTemplate(r) ==
  /\ pc[r] = "load"
  /\ Step(r, "load")
  /\ IF ~TemplateLoads(options[r].templateId)
     THEN /\ Throw(r, "Failed to load asset")
          /\ UNCHANGED docs
     ELSE /\ docs' = [docs EXCEPT ![DocOf(r)] = TemplateDoc]
          /\ pc' = [pc EXCEPT ![r] = After("load")]
          /\ UNCHANGED result
  /\ UNCHANGED <<bidi, form, embeds, assets, via, body, parsed, options, fontCache, responses>>

Gen_loadFonts(r) ==
  /\ pc[r] = "fonts"
  /\ LET fonts == loadFonts(assets.schema, assets.fonts)
     IN  /\ steps' = [steps EXCEPT ![r] =
                        @ \o [i \in 1..Len(fonts.embedded) |-> "embedFont"]]
         /\ docs' = [docs EXCEPT ![DocOf(r)].fonts = @ \o fonts.embedded]
         /\ IF fonts.failed # ""
            THEN /\ Throw(r, "Font loading failed")
                 /\ UNCHANGED fontCache
            ELSE /\ fontCache' = [fontCache EXCEPT ![r] = SeqRange(fonts.embedded)]
                 /\ pc' = [pc EXCEPT ![r] = After("fonts")]
                 /\ UNCHANGED result
  /\ UNCHANGED <<bidi, form, embeds, assets, via, body, parsed, options, responses>>

Gen_overlayTextFields(r) ==
  /\ pc[r] = "text"
  /\ LET draws == overlayTextFields(assets.schema, options[r].formData,
                                    fontCache[r], options[r].fontOverrides)
     IN  /\ steps' = [steps EXCEPT ![r] =
                        @ \o [i \in 1..Len(draws) |-> "drawText"]]
         /\ docs' = [docs EXCEPT ![DocOf(r)].texts = @ \o draws]
  /\ pc' = [pc EXCEPT ![r] = After("text")]
  /\ UNCHANGED <<bidi, form, embeds, assets, via, body, parsed, options, fontCache, result, responses>>

Gen_overlayImages(r) ==
  /\ pc[r] = "images"
  /\ LET out == overlayImages(options[r].images)
     IN  /\ steps' = [steps EXCEPT ![r] =
                        @ \o [i \in 1..Len(out.draws) |-> "drawImage"]]
         /\ docs' = [docs EXCEPT ![DocOf(r)].images = @ \o out.draws]
         /\ embeds' = [embeds EXCEPT ![r] = @ \o out.embeds]
         /\ IF out.error # ""
            THEN Throw(r, out.error)
            ELSE /\ pc' = [pc EXCEPT ![r] = After("images")]
                 /\ UNCHANGED result
  /\ UNCHANGED <<bidi, form, assets, via, body, parsed, options, fontCache, responses>>

Gen_save(r) ==
  /\ pc[r] = "save"
  /\ Step(r, "save")
  /\ docs' = [docs EXCEPT ![DocOf(r)].saves = @ + 1]
  /\ result' = [result EXCEPT ![r] =
                  [kind |-> "return", msg |-> "", bytes |-> docs'[DocOf(r)]]]
  /\ pc' = [pc EXCEPT ![r] = After("save")]
  /\ UNCHANGED <<bidi, form, embeds, assets, via, body, parsed, options, fontCache, responses>>

\* A direct call of the exported function.
Call(r) ==
  /\ pc[r] = "idle"
  /\ \E t \in DirectTemplateIds :
       options' = [options EXCEPT ![r] =
                     [boardFormSchema(BaseBody).data EXCEPT !.templateId = t]]
  /\ via' = [via EXCEPT ![r] = "direct"]
  /\ pc' = [pc EXCEPT ![r] = GenOrder[1]]
  /\ UNCHANGED <<bidi, form, embeds, assets, body, parsed, docs, fontCache, steps, result, responses>>

\* A direct call whose Auction_name or Type is any text of Texts.
CallWithText(r) ==
  /\ pc[r] = "idle"
  /\ \E name \in {"Auction_name", "Type"}, text \in Texts :
       options' = [options EXCEPT ![r] =
                     [boardFormSchema(BaseBody).data
                        EXCEPT !.formData[name] = text]]
  /\ via' = [via EXCEPT ![r] = "direct"]
  /\ pc' = [pc EXCEPT ![r] = GenOrder[1]]
  /\ UNCHANGED <<bidi, form, embeds, assets, body, parsed, docs, fontCache, steps, result, responses>>

-----------------------------------------------------------------------------
(* The POST handler, src/app/page.tsx *)

\* await req.json().catch(() => null)
ParsedBody(raw) ==
  IF raw.json = "unparsable" THEN [raw EXCEPT !.json = "null"] ELSE raw

\* !body
Falsy(value) == value.json \in {"null", "false", "zero", "emptystr"}

ValidationAlwaysPasses(p) == TRUE

\* if (!parsed.success) return 422
ValidationPasses(p) == p.success

JsonResponse(status, error, details) ==
  [status |-> status, kind |-> "json", error |-> error, details |-> details,
   pdf |-> NoDoc]

PdfResponse(bytes) ==
  [status |-> 200, kind |-> "pdf", error |-> "", details |-> {}, pdf |-> bytes]

CatchRethrows(msg) ==
  [status |-> 0, kind |-> "uncaught", error |-> msg, details |-> {}, pdf |-> NoDoc]

\* catch (err) { ... return NextResponse.json({ error: message }, 500) }
CatchResponse(msg) == JsonResponse(500, msg, {})

Respond(r, resp) ==
  /\ responses' = [responses EXCEPT ![r] = Append(@, resp)]
  /\ pc' = [pc EXCEPT ![r] = "done"]

Receive(r, B) ==
  /\ pc[r] = "idle"
  /\ \E b \in B : body' = [body EXCEPT ![r] = b]
  /\ via' = [via EXCEPT ![r] = "POST"]
  /\ pc' = [pc EXCEPT ![r] = "parse"]
  /\ UNCHANGED <<bidi, form, embeds, assets, parsed, options, docs, fontCache, steps, result, responses>>

POST_parse(r) ==
  /\ pc[r] = "parse"
  /\ IF Falsy(ParsedBody(body[r]))
     THEN Respond(r, JsonResponse(400, "invalid JSON", {}))
     ELSE /\ pc' = [pc EXCEPT ![r] = "validate"]
          /\ UNCHANGED responses
  /\ UNCHANGED <<bidi, form, embeds, assets, via, body, parsed, options, docs, fontCache, steps, result>>

POST_validate(r) ==
  /\ pc[r] = "validate"
  /\ LET p == boardFormSchema(ParsedBody(body[r]))
     IN  /\ parsed' = [parsed EXCEPT ![r] =
                         [success |-> p.success, issues |-> p.issues, ran |-> TRUE]]
         /\ IF ~ValidationPasses(p)
            THEN /\ Respond(r, JsonResponse(422, "invalid data", p.issues))
                 /\ UNCHANGED options
            ELSE /\ options' = [options EXCEPT ![r] =
                      [p.data EXCEPT !.images.qr =
                         IF Truthy(p.data.images.qr) THEN p.data.images.qr
                         ELSE NoImg]]
                 /\ pc' = [pc EXCEPT ![r] = GenOrder[1]]
                 /\ UNCHANGED responses
  /\ UNCHANGED <<bidi, form, embeds, assets, via, body, docs, fontCache, steps, result>>

POST_respond(r) ==
  /\ via[r] = "POST"
  /\ pc[r] = "returned"
  /\ Respond(r, PdfResponse(result[r].bytes))
  /\ UNCHANGED <<bidi, form, embeds, assets, via, body, parsed, options, docs, fontCache, steps, result>>

POST_catch(r) ==
  /\ via[r] = "POST"
  /\ pc[r] = "thrown"
  /\ Respond(r, CatchResponse(result[r].msg))
  /\ UNCHANGED <<bidi, form, embeds, assets, via, body, parsed, options, docs, fontCache, steps, result>>

-----------------------------------------------------------------------------
(* Specifications *)

Handle(r) ==
  \/ POST_parse(r)
  \/ POST_validate(r)
  \/ Gen_checkTemplateId(r)
  \/ Gen_loadTemplate(r)
  \/ Gen_loadFonts(r)
  \/ Gen_overlayTextFields(r)
  \/ Gen_overlayImages(r)
  \/ Gen_save(r)
  \/ POST_respond(r)
  \/ POST_catch(r)

\* One request, or one direct call, at a time.
Next ==
  \/ Receive(1, Bodies)
  \/ Call(1)
  \/ Handle(1)

Spec == Init /\ [][Next]_vars

\* Requests in every slot, their steps interleaved at the awaits.
ConcNext ==
  \E r \in Reqs :
    \/ Receive(r, ConcBodies)
    \/ Handle(r)

SpecConc == Init /\ [][ConcNext]_vars

\* The statements of generateBoard.
Generate(r) ==
  \/ Gen_checkTemplateId(r)
  \/ Gen_loadTemplate(r)
  \/ Gen_loadFonts(r)
  \/ Gen_overlayTextFields(r)
  \/ Gen_overlayImages(r)
  \/ Gen_save(r)

\* Direct calls with every text, all asset files in place.
TextInit ==
  /\ Init
  /\ assets.template
  /\ assets.fonts = FONT_PATHS

TextNext ==
  \/ CallWithText(1)
  \/ Generate(1)

SpecText == TextInit /\ [][TextNext]_vars

-----------------------------------------------------------------------------
(* The form-filling generator that strips appearance streams,              *)
(* src/unnamed/part_005 lines 1-402                                        *)

\* FONT_PATHS of this draft.
FORM_FONT_PATHS == {"LamaSans-Medium", "RuaqArabic-Bold", "RuaqArabic-Medium"}

BIDI_FIELDS == {"Start_hour", "End_hour", "Start_day", "End_day"}

\* loadFonts of this draft: the cache holds the schema's families that have a
\* font path; a mapped family whose file does not load makes it throw.
FormLoadFonts(fields, fontFiles) ==
  LET mapped == SeqRange(SchemaFamilies(fields)) \cap FORM_FONT_PATHS
  IN  [cache |-> mapped, failed |-> mapped \ fontFiles # {}]

\* The forms the template file may hold: every schema text field is missing,
\* or present with or without an appearance stream, and every image field has
\* no button, a button without widgets or a button with a widget.
TemplateForms ==
  [need    : {FALSE},
   text    : [FieldNames -> {[present |-> p, ap |-> a, value |-> <<>>] :
                               p \in BOOLEAN, a \in BOOLEAN} \
                            {[present |-> FALSE, ap |-> TRUE, value |-> <<>>]}],
   buttons : [ImageNames -> {"absent", "nowidget", "widget"}]]

\* The body of the loop of fillTextFields for one field.
FillField(field, fieldSpec, formData, cache) ==
  LET rawValue == formData[fieldSpec.name]
      value == IF fieldSpec.name \in BIDI_FIELDS
               THEN normalizeBidiText(rawValue) ELSE rawValue
  IN  IF rawValue = <<>> THEN field
      ELSE IF ~field.present THEN field
      ELSE [field EXCEPT
              !.ap = IF fieldSpec.family \in cache THEN TRUE ELSE @,
              !.value = value]

\* fillTextFields(form, formData, fontCache)
fillTextFields(f, fields, formData, cache) ==
  [f EXCEPT !.text =
     [n \in FieldNames |->
        LET i == CHOOSE j \in 1..Len(fields) : fields[j].name = n
        IN  FillField(f.text[n], fields[i], formData, cache)]]

KeepAppearances(f) == f

\* stripTextFieldAppearances(form): widget.dict.delete(PDFName.of('AP')) for
\* every widget of every schema text field the form has.
stripTextFieldAppearances(f) ==
  [f EXCEPT !.text =
     [n \in FieldNames |->
        IF f.text[n].present THEN [f.text[n] EXCEPT !.ap = FALSE] ELSE f.text[n]]]

\* pdfDoc.save({ updateFieldAppearances }): with the option true the library
\* builds an appearance stream for every text field before it serializes.
save(f, updateFieldAppearances) ==
  IF updateFieldAppearances
  THEN [f EXCEPT !.text =
          [n \in FieldNames |->
             IF f.text[n].present THEN [f.text[n] EXCEPT !.ap = TRUE]
             ELSE f.text[n]]]
  ELSE f

\* return pdfDoc.save({ updateFieldAppearances: false })
SaveForm(f) == save(f, FALSE)

ImageField(name) ==
  ImageFields[CHOOSE i \in 1..Len(ImageFields) : ImageFields[i].name = name]

\* widgets[0].getRectangle() of the button of an image field, in PDF
\* coordinates: the template's, not the schema's.
WidgetRect(name) ==
  LET spec == ImageField(name)
  IN  [x |-> spec.x + 100, y |-> convertY(spec.y, spec.h) - 100,
       w |-> spec.w + 200, h |-> spec.h + 200]

RemoveOnlyWithWidgets(button) == IF button = "widget" THEN "removed" ELSE button

\* The button of the field after the try block of drawImageOnPage:
\* form.removeField(button) when form.getButton did not throw.
ButtonAfterDraw(button) == IF button = "absent" THEN "absent" ELSE "removed"

\* The rectangle drawImageOnPage passes to page.drawImage.
DrawRect(name, button) ==
  LET spec == ImageField(name)
      schema == [x |-> spec.x, y |-> spec.y, w |-> spec.w, h |-> spec.h]
  IN  CASE button = "widget" -> WidgetRect(name)
        [] button = "nowidget" -> schema
        [] OTHER -> [schema EXCEPT !.y = BOARD_HEIGHT - spec.y - spec.h]

\* drawImageOnPage(pdfDoc, page, form, fieldName, imageBase64), called when
\* imageBase64 is truthy: the embed call, the draw (none when the embed
\* throws) and the button afterwards.
drawImageOnPage(button, name, img) ==
  LET decoder == IF isJpeg(img) THEN "jpeg" ELSE "png"
      rect == DrawRect(name, button)
  IN  IF EmbedFails(decoder, img)
      THEN [embeds |-> <<Embed(name, decoder, img)>>, draws |-> <<>>,
            failed |-> TRUE, button |-> button]
      ELSE [embeds |-> <<Embed(name, decoder, img)>>,
            draws |-> <<[field |-> name, decoder |-> decoder, x |-> rect.x,
                         y |-> rect.y, w |-> rect.w, h |-> rect.h]>>,
            failed |-> FALSE, button |-> ButtonAfterDraw(button)]

\* The statements of generateBoard in program order.
FormOrder == <<"f_check", "f_load", "f_fonts", "f_need", "f_fill", "f_strip",
               "f_logo", "f_qr", "f_save">>

FormPcs == SeqRange(FormOrder)

FormAfter(step) ==
  LET i == CHOOSE j \in 1..Len(FormOrder) : FormOrder[j] = step
  IN  IF i = Len(FormOrder) THEN "returned" ELSE FormOrder[i + 1]

Form_checkTemplateId(r) ==
  /\ pc[r] = "f_check"
  /\ Step(r, "check")
  /\ IF InvalidTemplateId(options[r].templateId)
     THEN Throw(r, "Invalid templateId")
     ELSE /\ pc' = [pc EXCEPT ![r] = FormAfter("f_check")]
          /\ UNCHANGED result
  /\ UNCHANGED <<bidi, form, embeds, assets, via, body, parsed, options, docs, fontCache, responses>>

\* loadAssetBytes, PDFDocument.load and pdfDoc.getForm()
Form_loadTemplate(r) ==
  /\ pc[r] = "f_load"
  /\ Step(r, "load")
  /\ IF ~TemplateLoads(options[r].templateId)
     THEN /\ Throw(r, "Failed to load template")
          /\ UNCHANGED <<docs, form>>
     ELSE /\ docs' = [docs EXCEPT ![DocOf(r)] = TemplateDoc]
          /\ \E f \in TemplateForms : form' = [form EXCEPT ![r] = f]
          /\ pc' = [pc EXCEPT ![r] = FormAfter("f_load")]
          /\ UNCHANGED result
  /\ UNCHANGED <<bidi, embeds, assets, via, body, parsed, options, fontCache, responses>>

Form_loadFonts(r) ==
  /\ pc[r] = "f_fonts"
  /\ Step(r, "fonts")
  /\ LET fonts == FormLoadFonts(assets.schema, assets.fonts)
     IN  IF fonts.failed
         THEN /\ Throw(r, "Font loading failed")
              /\ UNCHANGED fontCache
         ELSE /\ fontCache' = [fontCache EXCEPT ![r] = fonts.cache]
              /\ pc' = [pc EXCEPT ![r] = FormAfter("f_fonts")]
              /\ UNCHANGED result
  /\ UNCHANGED <<bidi, form, embeds, assets, via, body, parsed, options, docs, responses>>

\* form.acroForm.dict.set(PDFName.of('NeedAppearances'), PDFBool.True)
Form_setNeedAppearances(r) ==
  /\ pc[r] = "f_need"
  /\ Step(r, "need")
  /\ form' = [form EXCEPT ![r].need = TRUE]
  /\ pc' = [pc EXCEPT ![r] = FormAfter("f_need")]
  /\ UNCHANGED <<bidi, embeds, assets, via, body, parsed, options, docs, fontCache, result, responses>>

Form_fillTextFields(r) ==
  /\ pc[r] = "f_fill"
  /\ Step(r, "fill")
  /\ form' = [form EXCEPT ![r] =
                fillTextFields(@, assets.schema, options[r].formData, fontCache[r])]
  /\ pc' = [pc EXCEPT ![r] = FormAfter("f_fill")]
  /\ UNCHANGED <<bidi, embeds, assets, via, body, parsed, options, docs, fontCache, result, responses>>

Form_stripTextFieldAppearances(r) ==
  /\ pc[r] = "f_strip"
  /\ Step(r, "strip")
  /\ form' = [form EXCEPT ![r] = stripTextFieldAppearances(@)]
  /\ pc' = [pc EXCEPT ![r] = FormAfter("f_strip")]
  /\ UNCHANGED <<bidi, embeds, assets, via, body, parsed, options, docs, fontCache, result, responses>>

\* if (image) await drawImageOnPage(pdfDoc, page, form, name, image)
Form_draw(r, at, name, img) ==
  /\ pc[r] = at
  /\ IF ~Truthy(img)
     THEN /\ pc' = [pc EXCEPT ![r] = FormAfter(at)]
          /\ UNCHANGED <<form, embeds, docs, steps, result>>
     ELSE LET out == drawImageOnPage(form[r].buttons[name], name, img)
          IN  /\ embeds' = [embeds EXCEPT ![r] = @ \o out.embeds]
              /\ docs' = [docs EXCEPT ![DocOf(r)].images = @ \o out.draws]
              /\ form' = [form EXCEPT ![r].buttons[name] = out.button]
              /\ steps' = [steps EXCEPT ![r] =
                             @ \o [i \in 1..Len(out.draws) |-> "drawImage"]]
              /\ IF out.failed
                 THEN Throw(r, "embed failed")
                 ELSE /\ pc' = [pc EXCEPT ![r] = FormAfter(at)]
                      /\ UNCHANGED result
  /\ UNCHANGED <<bidi, assets, via, body, parsed, options, fontCache, responses>>

Form_drawLogo(r) == Form_draw(r, "f_logo", "Company_logo", options[r].images.logo)

Form_drawQr(r) == Form_draw(r, "f_qr", "QRcode", options[r].images.qr)

Form_save(r) ==
  /\ pc[r] = "f_save"
  /\ Step(r, "save")
  /\ form' = [form EXCEPT ![r] = SaveForm(@)]
  /\ docs' = [docs EXCEPT ![DocOf(r)].saves = @ + 1]
  /\ result' = [result EXCEPT ![r] =
                  [kind |-> "return", msg |-> "", bytes |-> docs'[DocOf(r)]]]
  /\ pc' = [pc EXCEPT ![r] = FormAfter("f_save")]
  /\ UNCHANGED <<bidi, embeds, assets, via, body, parsed, options, fontCache, responses>>

\* The images of a call: no image, a PNG, a JPEG, and PNG bytes sent as a
\* JPEG data URI.
FormLogos == {NoImg, ImgStr("none", "png"), ImgStr("none", "jpeg"),
              ImgStr("jpeg", "png")}
FormQrs == {NoImg, ImgStr("none", "png"), ImgStr("none", "jpeg")}

\* A call of this draft's generateBoard: District and phone are given or
\* left empty, the logo and the QR image are given or not.
FormCall(r) ==
  /\ pc[r] = "idle"
  /\ \E district \in {<<>>, <<"a">>}, phone \in {<<>>, <<"1">>},
        logo \in FormLogos, qr \in FormQrs :
       options' = [options EXCEPT ![r] =
                     [boardFormSchema(BaseBody).data
                        EXCEPT !.formData["District"] = district,
                               !.formData["phone"] = phone,
                               !.images = [logo |-> logo, qr |-> qr]]]
  /\ via' = [via EXCEPT ![r] = "direct"]
  /\ pc' = [pc EXCEPT ![r] = FormOrder[1]]
  /\ UNCHANGED <<bidi, form, embeds, assets, body, parsed, docs, fontCache, steps, result, responses>>

FormInit ==
  /\ Init
  /\ assets.template
  /\ assets.fonts = FONT_PATHS
  /\ assets.schema = TextFields

FormNext ==
  \/ FormCall(1)
  \/ Form_checkTemplateId(1)
  \/ Form_loadTemplate(1)
  \/ Form_loadFonts(1)
  \/ Form_setNeedAppearances(1)
  \/ Form_fillTextFields(1)
  \/ Form_stripTextFieldAppearances(1)
  \/ Form_drawLogo(1)
  \/ Form_drawQr(1)
  \/ Form_save(1)

SpecStrip == FormInit /\ [][FormNext]_vars

-----------------------------------------------------------------------------
(* normalizeBidiText applied to every short text *)

MaxBidiLen == 4

\* A digit, a separator, a space and a letter.
BidiChars == {"1", ":", " ", "a"}

RECURSIVE BidiTextsOf(_)
BidiTextsOf(n) ==
  IF n = 0 THEN {<<>>}
  ELSE LET shorter == BidiTextsOf(n - 1)
       IN  shorter \cup {t \o <<c>> : t \in shorter, c \in BidiChars}

BidiTexts == BidiTextsOf(MaxBidiLen)

BidiInit ==
  /\ assets \in {a \in AssetConfigs : a.template /\ a.fonts = FONT_PATHS /\ a.schema = TextFields}
  /\ pc = [r \in Reqs |-> "idle"]
  /\ via = [r \in Reqs |-> "none"]
  /\ body = [r \in Reqs |-> BaseBody]
  /\ parsed = [r \in Reqs |-> NoParse]
  /\ options = [r \in Reqs |-> NoOptions]
  /\ docs = [r \in Reqs |-> NoDoc]
  /\ fontCache = [r \in Reqs |-> {}]
  /\ steps = [r \in Reqs |-> <<>>]
  /\ result = [r \in Reqs |-> NoResult]
  /\ responses = [r \in Reqs |-> <<>>]
  /\ embeds = [r \in Reqs |-> <<>>]
  /\ form = [r \in Reqs |-> NoForm]
  /\ bidi \in {[value |-> t, out |-> <<>>, applied |-> FALSE] : t \in BidiTexts}

\* const value = normalizeBidiText(rawValue)
ApplyBidi ==
  /\ ~bidi.applied
  /\ bidi' = [bidi EXCEPT !.out = normalizeBidiText(bidi.value), !.applied = TRUE]
  /\ UNCHANGED <<form, embeds, assets, pc, via, body, parsed, options, docs,
                 fontCache, steps, result, responses>>

BidiNext == ApplyBidi

SpecBidi == BidiInit /\ [][BidiNext]_vars

-----------------------------------------------------------------------------
(* Properties *)

\* generateBoard has been called for request r.
Invoked(r) ==
  pc[r] \in GenPcs \cup {"returned", "thrown"} \/ result[r].kind # "none"

Count(q, e) == Cardinality({i \in 1..Len(q) : q[i] = e})

\* The document request r works on.
Page(r) == docs[DocOf(r)]

\* C1: in the POST handler generateBoard is called only for a body that
\* passed boardFormSchema; a body whose validation fails is answered with
\* 422 and the issues, and generateBoard is never called for it.
C1_ValidatedBeforeGenerate ==
  \A r \in Reqs :
    via[r] = "POST" =>
      /\ Invoked(r) =>
           /\ parsed[r].ran
           /\ boardFormSchema(ParsedBody(body[r])).success
      /\ (parsed[r].ran /\ ~boardFormSchema(ParsedBody(body[r])).success) =>
           /\ pc[r] = "done"
           /\ ~Invoked(r)
           /\ steps[r] = <<>>
           /\ parsed[r].issues # {}
           /\ responses[r] =
                <<JsonResponse(422, "invalid data",
                               boardFormSchema(ParsedBody(body[r])).issues)>>

C1_Witness ==
  \E r \in Reqs :
    /\ via[r] = "POST"
    /\ parsed[r].ran
    /\ ~parsed[r].success
    /\ responses[r] # <<>>
    /\ responses[r][1].status = 422

\* The formData members of request r were accepted by textFieldsSchema.
FormDataAccepted(r) ==
  \A i \in parsed[r].issues : i[1] # "formData"

RequiredPresent(fd) ==
  \A n \in FieldNames :
    FieldSpec(n).required => fd[n].k = "string" /\ Len(fd[n].s) >= 1

OptionalWellTyped(fd) ==
  \A n \in FieldNames :
    ~FieldSpec(n).required => fd[n].k \in {"string", "undefined"}

AbsentOptionalDefaults(r) ==
  (parsed[r].ran /\ parsed[r].success) =>
    \A n \in FieldNames :
      (~FieldSpec(n).required /\ body[r].formData[n].k = "undefined")
        => options[r].formData[n] = <<>>

\* C2 as stated: textFieldsSchema accepts a formData object if and only if
\* every required field is a string of length at least 1, and an absent
\* non-required field defaults to ''.
C2_Original ==
  \A r \in Reqs :
    /\ parsed[r].ran /\ body[r].json = "object"
         => (FormDataAccepted(r) <=> RequiredPresent(body[r].formData))
    /\ AbsentOptionalDefaults(r)

\* C2 as amended: textFieldsSchema accepts a formData object if and only if
\* every required field is a string of length at least 1 and every
\* non-required field is absent or a string; an absent non-required field
\* defaults to ''.
C2_AcceptsIffRequiredAndTyped ==
  \A r \in Reqs :
    /\ parsed[r].ran /\ body[r].json = "object"
         => (FormDataAccepted(r) <=>
               /\ RequiredPresent(body[r].formData)
               /\ OptionalWellTyped(body[r].formData))
    /\ AbsentOptionalDefaults(r)

C2_Witness ==
  \E r \in Reqs :
    /\ parsed[r].ran
    /\ parsed[r].success
    /\ body[r].formData["District"] = Undef
    /\ options[r].formData["District"] = <<>>
    /\ pc[r] = "check"

\* What generateBoard makes of its options alone, given the asset files.
IsolatedGenerate(opts) ==
  LET fonts == loadFonts(assets.schema, assets.fonts)
      texts == overlayTextFields(assets.schema, opts.formData,
                                 SeqRange(fonts.embedded), opts.fontOverrides)
      imgs  == overlayImages(opts.images)
      T(msg) == [kind |-> "throw", msg |-> msg, bytes |-> NoDoc]
  IN  IF InvalidTemplateId(opts.templateId) THEN T("Invalid templateId")
      ELSE IF ~TemplateLoads(opts.templateId) THEN T("Failed to load asset")
      ELSE IF fonts.failed # "" THEN T("Font loading failed")
      ELSE IF imgs.error # "" THEN T(imgs.error)
      ELSE [kind |-> "return", msg |-> "",
            bytes |-> [loaded |-> TRUE, fonts |-> fonts.embedded,
                       texts |-> texts, images |-> imgs.draws, saves |-> 1]]

\* What the handler answers to a body alone, given the asset files.
IsolatedResponse(b) ==
  LET p    == boardFormSchema(ParsedBody(b))
      opts == [p.data EXCEPT !.images.qr =
                 IF Truthy(p.data.images.qr) THEN p.data.images.qr ELSE NoImg]
      out  == IsolatedGenerate(opts)
  IN  IF Falsy(ParsedBody(b)) THEN JsonResponse(400, "invalid JSON", {})
      ELSE IF ~p.success THEN JsonResponse(422, "invalid data", p.issues)
      ELSE IF out.kind = "throw" THEN JsonResponse(500, out.msg, {})
      ELSE PdfResponse(out.bytes)

\* C3: the response to a request (its status, and the text and image draws
\* of its PDF) is a function of the request's body and the asset files,
\* whatever the other requests are and however their steps interleave.
C3_Stateless ==
  \A r \in Reqs :
    pc[r] = "done" => responses[r] = <<IsolatedResponse(body[r])>>

C3_Witness ==
  \E r, q \in Reqs :
    /\ r # q
    /\ body[r] # body[q]
    /\ pc[r] = "done"
    /\ responses[r][1].status = 200
    /\ Len(responses[r][1].pdf.texts) > 0
    /\ pc[q] = "images"
    /\ Len(docs[DocOf(q)].texts) > 0

\* C4: the POST handler returns exactly one response, with status 200, 400,
\* 422 or 500; an exception of generateBoard always becomes a 500 response
\* with a JSON error message and never leaves the handler.
C4_OneResponse ==
  \A r \in Reqs :
    via[r] = "POST" =>
      /\ Len(responses[r]) = (IF pc[r] = "done" THEN 1 ELSE 0)
      /\ \A i \in 1..Len(responses[r]) :
           responses[r][i].status \in {200, 400, 422, 500}
      /\ (pc[r] = "done" /\ result[r].kind = "throw") =>
           responses[r] = <<JsonResponse(500, result[r].msg, {})>>

C4_Witness ==
  \E r \in Reqs :
    /\ via[r] = "POST"
    /\ pc[r] = "done"
    /\ result[r].kind = "throw"
    /\ result[r].msg = "Font loading failed"
    /\ responses[r][1].status = 500

\* C5 as stated: the handler answers 400 if and only if the body cannot be
\* parsed as JSON; every body that is valid JSON reaches schema validation.
C5_Original ==
  \A r \in Reqs :
    (via[r] = "POST" /\ pc[r] = "done") =>
      /\ responses[r][1].status = 400 <=> body[r].json = "unparsable"
      /\ body[r].json # "unparsable" => parsed[r].ran

Rank(step) ==
  CASE step = "check"     -> 1
    [] step = "load"      -> 2
    [] step = "embedFont" -> 3
    [] step = "drawText"  -> 4
    [] step = "drawImage" -> 5
    [] step = "save"      -> 6

\* C6: in every call of generateBoard the steps come in the order templateId
\* check, template load, font embedding, text writes, image writes,
\* serialization; a call that returns has checked, loaded and serialized
\* exactly once, and nothing is written after the serialization.
C6_StepOrder ==
  \A r \in Reqs :
    /\ \A i, j \in 1..Len(steps[r]) :
         i < j => Rank(steps[r][i]) <= Rank(steps[r][j])
    /\ result[r].kind = "return" =>
         /\ Count(steps[r], "check") = 1
         /\ Count(steps[r], "load") = 1
         /\ Count(steps[r], "save") = 1
         /\ steps[r][Len(steps[r])] = "save"
         /\ Count(steps[r], "drawText") = Len(result[r].bytes.texts)
         /\ Count(steps[r], "drawImage") = Len(result[r].bytes.images)
         /\ result[r].bytes.saves = 1

C6_Witness ==
  \E r \in Reqs :
    /\ result[r].kind = "return"
    /\ Count(steps[r], "embedFont") > 1
    /\ Count(steps[r], "drawText") > 1
    /\ Count(steps[r], "drawImage") = 2

C8_Original ==
  \A r \in Reqs :
    (/\ via[r] = "POST"
     /\ pc[r] = "done"
     /\ body[r].json = "object"
     /\ body[r].templateId \in {JNum(10 * t) : t \in 1..6}
     /\ boardFormSchema([body[r] EXCEPT !.templateId = JNum(10)]).success) =>
      /\ responses[r][1].status # 422
      /\ Invoked(r)

\* C9: every base y of a text field and every y of the logo and the QR image
\* is BOARD_HEIGHT - y_schema - field_height, and the x of an image is the
\* schema x.
C9_Placement ==
  \A r \in Reqs :
    /\ \A i \in 1..Len(Page(r).texts) :
         LET d    == Page(r).texts[i]
             f    == FieldSpec(d.field)
             base == BOARD_HEIGHT - f.y - f.h
         IN  /\ d.baseY = base
             /\ d.y \in {6 * base + 3 * f.h + 180 * d.size,
                         6 * base + 3 * f.h - 480 * d.size,
                         6 * base + 3 * f.h - 200 * d.size}
    /\ \A i \in 1..Len(Page(r).images) :
         LET m == Page(r).images[i]
             f == ImageSpec(m.field)
         IN  /\ m.y = BOARD_HEIGHT - f.y - f.h
             /\ m.x = f.x

C9_Witness ==
  \E r \in Reqs :
    /\ Len(Page(r).texts) >= 3
    /\ Len(Page(r).images) = 2

TypeWords(r) == Len(SplitWs(Trim(options[r].formData["Type"])))

\* C10 as stated: every text field outside the allowed-override list is
\* drawn at the schema font size, whatever its value and the fontOverrides.
C10_Original ==
  \A r \in Reqs :
    \A i \in 1..Len(Page(r).texts) :
      LET d == Page(r).texts[i]
      IN  d.field \notin ALLOWED_FONT_OVERRIDES
            => d.size = FieldSpec(d.field).size

\* C10 as amended: every text field outside the allowed-override list other
\* than Type is drawn at the schema font size, whatever its value and the
\* fontOverrides; Type is drawn at the schema size when its value has at most
\* two words and at 400 when it has more.
C10_SchemaSizeExceptSplitType ==
  \A r \in Reqs :
    \A i \in 1..Len(Page(r).texts) :
      LET d == Page(r).texts[i]
      IN  /\ d.field \notin ALLOWED_FONT_OVERRIDES \cup {"Type"}
               => d.size = FieldSpec(d.field).size
          /\ d.field = "Type"
               => d.size = IF TypeWords(r) > 2 THEN 400
                           ELSE FieldSpec("Type").size

C10_Witness ==
  \E r \in Reqs :
    /\ via[r] = "POST"
    /\ body[r].fontOverrides.f["Auction_name"] = JNum(400)
    /\ \E i \in 1..Len(Page(r).texts) :
         /\ Page(r).texts[i].field = "Auction_name"
         /\ Page(r).texts[i].size = 278
    /\ \E i \in 1..Len(Page(r).texts) :
         /\ Page(r).texts[i].field = "Type"
         /\ Page(r).texts[i].size = 400

\* The draws of a schema text field on the page of request r.
DrawsOf(r, name) ==
  SelectSeq(Page(r).texts, LAMBDA d : d.field = name)

\* The fontOverrides entry of a request body for a field name.
OverrideOf(b, name) ==
  IF b.fontOverrides.k = "object" THEN b.fontOverrides.f[name] ELSE Undef

\* C11 as stated: a fontOverrides entry for Type or for Auction_name in the
\* request changes the font size at which that field is drawn to the given
\* value.
C11_Original ==
  \A r \in Reqs :
    via[r] = "POST" =>
      \A name \in {"Type", "Auction_name"} :
        OverrideOf(body[r], name).k = "number" =>
          \A i \in 1..Len(DrawsOf(r, name)) :
            DrawsOf(r, name)[i].size = OverrideOf(body[r], name).n

\* C12 as stated: a font-size override larger than 800 is rejected by
\* validation, so no field is ever drawn at an override size above 800.
C12_Original ==
  \A r \in Reqs :
    via[r] = "POST" =>
      \A name \in DOMAIN body[r].fontOverrides.f :
        (/\ OverrideOf(body[r], name).k = "number"
         /\ OverrideOf(body[r], name).n > 800) =>
          /\ parsed[r].ran => ~parsed[r].success
          /\ \A i \in 1..Len(DrawsOf(r, name)) :
               DrawsOf(r, name)[i].size # OverrideOf(body[r], name).n

ImagesOf(pdf, name) ==
  SelectSeq(pdf.images, LAMBDA m : m.field = name)

\* C14 as stated: when a request supplies no QR image a QR code is
\* generated, so every successfully generated board has a QR image at the
\* QRcode position.
C14_Original ==
  \A r \in Reqs :
    (/\ via[r] = "POST"
     /\ pc[r] = "done"
     /\ responses[r][1].status = 200) =>
      /\ Len(ImagesOf(responses[r][1].pdf, "QRcode")) = 1
      /\ ImagesOf(responses[r][1].pdf, "QRcode")[1].x = ImageSpec("QRcode").x
      /\ ImagesOf(responses[r][1].pdf, "QRcode")[1].y =
           convertY(ImageSpec("QRcode").y, ImageSpec("QRcode").h)

\* The logo member of a body is a non-empty string.
HasLogo(b) == b.images.logo.k = "string" /\ b.images.logo.fmt # "empty"

RECURSIVE Words(_)
Words(s) ==
  LET t == TrimStart(s)
      w == FirstWord(t)
  IN  IF t = <<>> THEN <<>>
      ELSE <<w>> \o Words(SubSeq(t, Len(w) + 1, Len(t)))

\* overlayTextFields has run for request r.
TextDone(r) == pc[r] \in {"images", "save", "returned"}

TextsDrawn(draws) == [i \in 1..Len(draws) |-> draws[i].text]

\* C17: splitAuctionName returns <<the word, the remaining words joined by
\* single spaces>> exactly when the first word of the text is the word and
\* another word follows, and <<text, ''>> otherwise; the words of the two
\* lines are the words of the text, in order; overlayTextFields draws the
\* non-empty lines.
C17_SplitAuctionName ==
  \A r \in Reqs :
    via[r] = "direct" =>
      LET text  == options[r].formData["Auction_name"]
          W     == Words(text)
          lines == splitAuctionName(text)
      IN  /\ Len(lines) = 2
          /\ IF Len(W) >= 2 /\ W[1] = Mazad
             THEN lines = <<Mazad, JoinSpace(Tail(W))>>
             ELSE lines = <<text, <<>>>>
          /\ Words(lines[1]) \o Words(lines[2]) = W
          /\ (TextDone(r) /\ text # <<>>) =>
               TextsDrawn(DrawsOf(r, "Auction_name")) =
                 IF lines[2] = <<>> THEN <<lines[1]>> ELSE lines

C17_Witness ==
  \E r \in Reqs :
    /\ via[r] = "direct"
    /\ options[r].formData["Auction_name"] = <<" ">> \o Mazad \o <<"\t", " ", "a">>
    /\ TextDone(r)
    /\ TextsDrawn(DrawsOf(r, "Auction_name")) = <<Mazad, <<"a">>>>

\* C18: the Type value is drawn on two lines, its first word and its
\* remaining words joined by single spaces, at size 400 exactly when it has
\* more than two words; otherwise it is drawn unchanged on one line at the
\* schema size.
C18_TypeSplit ==
  \A r \in Reqs :
    (/\ via[r] = "direct"
     /\ TextDone(r)
     /\ options[r].formData["Type"] # <<>>) =>
      LET text  == options[r].formData["Type"]
          W     == Words(text)
          draws == DrawsOf(r, "Type")
      IN  IF Len(W) > 2
          THEN /\ TextsDrawn(draws) = <<W[1], JoinSpace(Tail(W))>>
               /\ \A i \in 1..Len(draws) : draws[i].size = 400
          ELSE /\ TextsDrawn(draws) = <<text>>
               /\ draws[1].size = FieldSpec("Type").size

C18_Witness ==
  \E r \in Reqs :
    /\ via[r] = "direct"
    /\ TextDone(r)
    /\ options[r].formData["Type"] = <<"a", " ", "m", "z", "\t", "a">>
    /\ TextsDrawn(DrawsOf(r, "Type")) = <<<<"a">>, <<"m", "z", " ", "a">>>>
    /\ DrawsOf(r, "Type")[1].size = 400

\* A value of the field is drawn on two lines.
SplitInTwo(name, text) ==
  \/ name = "Auction_name" /\ Len(Words(text)) >= 2 /\ Words(text)[1] = Mazad
  \/ name = "Type" /\ Len(Words(text)) > 2

\* The font family the schema file gives a field.
FamilyOf(name) ==
  assets.schema[CHOOSE i \in 1..Len(assets.schema) :
                  assets.schema[i].name = name].family

MappedFamilies == SeqRange(SchemaFamilies(assets.schema)) \cap FONT_PATHS

\* C20: loadFonts embeds each distinct font family of the schema at most
\* once per document; a family without a font file path is skipped without
\* error; when a font file of a family with a path cannot be loaded or
\* embedded, generateBoard throws 'Font loading failed' and returns no PDF
\* bytes.
C20_LoadFonts ==
  \A r \in Reqs :
    LET embedded == Page(r).fonts
    IN  /\ \A i, j \in 1..Len(embedded) : i # j => embedded[i] # embedded[j]
        /\ SeqRange(embedded) \subseteq MappedFamilies
        /\ pc[r] \in {"text", "images", "save", "returned"} =>
             /\ SeqRange(embedded) = MappedFamilies
             /\ fontCache[r] = MappedFamilies
             /\ MappedFamilies \subseteq assets.fonts
        /\ (/\ Page(r).loaded
            /\ pc[r] # "fonts"
            /\ MappedFamilies \subseteq assets.fonts) =>
             result[r].msg # "Font loading failed"
        /\ (/\ Page(r).loaded
            /\ pc[r] # "fonts"
            /\ ~(MappedFamilies \subseteq assets.fonts)) =>
             /\ result[r] = [kind |-> "throw", msg |-> "Font loading failed",
                             bytes |-> NoDoc]
             /\ Page(r).saves = 0
             /\ Page(r).texts = <<>>
             /\ pc[r] = "done" =>
                  responses[r] = <<JsonResponse(500, "Font loading failed", {})>>

C20_Witness ==
  \E r \in Reqs :
    /\ pc[r] = "text"
    /\ \E i \in 1..Len(assets.schema) : assets.schema[i].family \notin FONT_PATHS
    /\ Len(Page(r).fonts) = 2
    /\ Len(assets.schema) > Len(Page(r).fonts) + 1
    /\ fontCache[r] = MappedFamilies

\* C24 as stated: if generateBoard returns, every schema text field with a
\* non-empty value in formData has been drawn on the page at least once.
C24_Original ==
  \A r \in Reqs :
    result[r].kind = "return" =>
      \A name \in FieldNames :
        options[r].formData[name] # <<>> =>
          \E i \in 1..Len(result[r].bytes.texts) :
            result[r].bytes.texts[i].field = name

\* C25 as stated: every image the form's uploader accepts, in the logo slot
\* and in the QR slot, is embedded with the decoder of its own format.
C25_Original ==
  \A r \in Reqs :
    (/\ via[r] = "POST"
     /\ body[r].images.logo \in UploaderOutputs
     /\ body[r].images.qr \in UploaderOutputs \cup {NoImg}) =>
      \A i \in 1..Len(embeds[r]) :
        embeds[r][i].decoder = embeds[r][i].fmt

\* The positions of U+200E in s before position i.
MarksBefore(s, i) == {j \in 1..(i - 1) : s[j] = lrm}

\* C26 as stated: normalizeBidiText only inserts marks: its output without
\* U+200E and U+200F is the input, spaces included; the output begins and ends
\* with U+200F; every digit of the output lies between an opening and a
\* closing U+200E.
C26_Original ==
  bidi.applied =>
    /\ WithoutMarks(bidi.out) = bidi.value
    /\ Head(bidi.out) = rlm /\ bidi.out[Len(bidi.out)] = rlm
    /\ \A i \in 1..Len(bidi.out) :
         bidi.out[i] \in BidiDigits =>
           /\ Cardinality(MarksBefore(bidi.out, i)) % 2 = 1
           /\ \E k \in (i + 1)..Len(bidi.out) : bidi.out[k] = lrm

\* The positions of a step in the steps of request r.
StepsAt(r, step) == {i \in 1..Len(steps[r]) : steps[r][i] = step}

\* C21: when the appearance-stripping generateBoard has returned, the form of
\* the serialized document has NeedAppearances true and no schema text field
\* of it has an appearance stream, the fields filled in that call included;
\* the stripping ran, and ran after every fill.
C21_NoAppearancesSerialized ==
  \A r \in Reqs :
    (pc[r] = "returned" /\ StepsAt(r, "need") # {}) =>
      /\ form[r].need
      /\ \A n \in FieldNames : form[r].text[n].present => ~form[r].text[n].ap
      /\ StepsAt(r, "strip") # {}
      /\ \A i \in StepsAt(r, "fill"), j \in StepsAt(r, "strip") : i < j

\* A returned document with a field that was filled in the call with its font
\* applied, and that has no appearance stream.
C21_Witness ==
  \E r \in Reqs :
    /\ pc[r] = "returned"
    /\ form[r].need
    /\ \E n \in FieldNames :
         /\ form[r].text[n].present
         /\ form[r].text[n].value # <<>>
         /\ FieldSpec(n).family \in fontCache[r]
         /\ ~form[r].text[n].ap

RectOf(d) == [x |-> d.x, y |-> d.y, w |-> d.w, h |-> d.h]

\* The schema rectangle of an image field with its y converted to the PDF
\* origin.
SchemaRect(name) ==
  LET spec == ImageField(name)
  IN  [x |-> spec.x, y |-> BOARD_HEIGHT - spec.y - spec.h, w |-> spec.w, h |-> spec.h]

\* C23 as stated: every rectangle drawImageOnPage draws at is the button
\* widget's rectangle or the schema rectangle with y = pageHeight - y - height;
\* the unconverted schema y is never drawn at.
C23_Original ==
  \A r \in Reqs :
    \A i \in 1..Len(Page(r).images) :
      LET d == Page(r).images[i]
      IN  RectOf(d) \in {WidgetRect(d.field), SchemaRect(d.field)}

====
